---- MODULE Spec2Model ----
(***************************************************************************)
(* A model of the BLE sensor logger: the registry-driven logger            *)
(* (logger.py: DeviceConfig and BLELogger), the single-device logger       *)
(* (H5074_logger.py: GoveeSensor) and the stand-alone scanner              *)
(* (adscanner.py: GoveeSensor).                                            *)
(*                                                                         *)
(* Conventions.  A Python str is a tuple of one-character strings, so that *)
(* upper(), hex() and strftime() are computed character by character.      *)
(* A Python dict is a sequence of [k, v] pairs in insertion order.  A      *)
(* value of a decoded or mapped record is Num(n) or Str(s); temperature    *)
(* and humidity are kept in integer hundredths (the code divides by        *)
(* 100.0).  None is the empty tuple, which is falsy like None; an          *)
(* Optional[dict] holding a device entry is << >> or <<entry>>.  Dict keys *)
(* and type tags (device_type, decoder type) are TLA+ strings.             *)
(***************************************************************************)
EXTENDS Integers, Sequences, FiniteSets, TLC

VARIABLES
    program,        \* which script runs: "logger", "H5074_logger" or "adscanner"
    store,          \* the configuration file device_config.json: [exists, text]
    config,         \* DeviceConfig.config['devices'], the registry in memory
    mac_address,    \* GoveeSensor.mac_address of H5074_logger.py
    pc,             \* position of main(): "main", "configure", "exited", "monitor1",
                    \* "OSError", "JSONDecodeError" (main() left by that exception),
                    \* "between", "monitor2", "returned", "cancelled"
    interval,       \* the interval argument of the monitor call
    now,            \* the wall clock, in seconds (time.time(), datetime.now())
    last_log_time,  \* self._last_log_time
    scanner,        \* the active BleakScanner subscription: "none", "cb1" or "cb2"
    data_file,      \* self.data_file, the name computed at construction
    file,           \* the CSV file data_file names: [exists, lines]
    console,        \* number of reading summaries printed by the callbacks
    accepted,       \* history: the should_log() calls that returned True, [key, at]
    written,        \* history: the rows appended to the file, [key, address, at]
    evt,            \* history: the advertisement the last step handled and what it
                    \* caused; NoEvent after a step that is no callback
    arg,            \* history: the last call made to the registry (Spec,
                    \* SpecRegistry); the input of the pure function under
                    \* check (SpecDecode, SpecMap)
    ret             \* its result

vars == <<program, store, config, mac_address, pc, interval, now, last_log_time, scanner, data_file,
          file, console, accepted, written, evt, arg, ret>>

(***************************************************************************)
(* Bounds of the model.                                                    *)
(***************************************************************************)
MaxTime == 3            \* the clock runs from StartTime to MaxTime
MaxInterval == 2        \* --interval is drawn from MinInterval..MaxInterval
MinInterval == 2
MaxPayloadLen == 7      \* manufacturer payloads of 0..MaxPayloadLen bytes
MaxFields == 2          \* field mappings per entry in the check of the mapper
SecondsPerDay == 3      \* a calendar day, scaled down to the clock's range
StartTime == 1          \* the clock at construction; time.time() is never 0
MaxScans == 2           \* readings adscanner.py, which has no rate gate, handles

(***************************************************************************)
(* Python values.                                                          *)
(***************************************************************************)
None == << >>
Truthy(x) == x # << >>

Num(n) == [tag |-> "num", n |-> n, s |-> << >>]
Str(s) == [tag |-> "str", n |-> 0, s |-> s]

Min(a, b) == IF a <= b THEN a ELSE b

\* dict operations on sequences of [k, v] pairs
DictHas(d, k) == \E i \in 1..Len(d) : d[i].k = k
DictGet(d, k) == d[CHOOSE i \in 1..Len(d) : d[i].k = k].v
DictGetOr(d, k, default) == IF DictHas(d, k) THEN DictGet(d, k) ELSE default
DictSet(d, k, v) ==
    IF DictHas(d, k)
    THEN [i \in 1..Len(d) |-> IF d[i].k = k THEN [k |-> k, v |-> v] ELSE d[i]]
    ELSE Append(d, [k |-> k, v |-> v])
DictKeys(d) == [i \in 1..Len(d) |-> d[i].k]

\* data[i:j] of Python, 0-based and clamped to the length
Slice(data, i, j) == SubSeq(data, i + 1, Min(j, Len(data)))

\* str.upper() on the characters the model uses
UpperChar(c) ==
    CASE c = "a" -> "A"
      [] c = "b" -> "B"
      [] c = "c" -> "C"
      [] c = "g" -> "G"
      [] c = "x" -> "X"
      [] OTHER -> c
\* mutant: the string is left in the case it has
upper_identity(s) == s

upper(s) == [i \in 1..Len(s) |-> UpperChar(s[i])]

\* re.match(pattern, string) for patterns without metacharacters: the
\* pattern must match at the start of the string
re_match(pattern, string) ==
    /\ Len(pattern) <= Len(string)
    /\ SubSeq(string, 1, Len(pattern)) = pattern

(***************************************************************************)
(* Time formatting: datetime.now().strftime(...).                          *)
(***************************************************************************)
DigitChars == <<"0", "1", "2", "3", "4", "5", "6", "7", "8", "9">>
TwoDigits(n) == <<DigitChars[((n \div 10) % 10) + 1], DigitChars[(n % 10) + 1]>>

\* strftime("%Y%m%d"): the calendar day of t
strftime_date(t) == TwoDigits(t \div SecondsPerDay)
\* strftime("%Y-%m-%d %H:%M:%S")
strftime_timestamp(t) ==
    <<"d">> \o TwoDigits(t \div SecondsPerDay) \o <<" ">> \o TwoDigits(t % SecondsPerDay)

(***************************************************************************)
(* PayloadDecoder.                                                         *)
(***************************************************************************)
GOVEE == 60552          \* the company identifier of the Govee payload
OTHER_COMPANY == 76     \* some other company identifier an advertisement may carry

\* int.from_bytes(b, byteorder='little')
RECURSIVE from_bytes_little(_)
from_bytes_little(b) ==
    IF b = << >> THEN 0 ELSE Head(b) + 256 * from_bytes_little(Tail(b))

HexChars == <<"0", "1", "2", "3", "4", "5", "6", "7",
              "8", "9", "a", "b", "c", "d", "e", "f">>

\* bytes.hex()
RECURSIVE bytes_hex(_)
bytes_hex(b) ==
    IF b = << >> THEN << >>
    ELSE <<HexChars[(Head(b) \div 16) + 1], HexChars[(Head(b) % 16) + 1]>>
         \o bytes_hex(Tail(b))

\* mutant: the temperature is read from offset 0 instead of offset 1
decode_govee_h5074_shifted(manufacturer_data) ==
    IF GOVEE \notin DOMAIN manufacturer_data THEN None
    ELSE LET data == manufacturer_data[GOVEE] IN
         IF Len(data) < 6 THEN None
         ELSE << [k |-> "temperature", v |-> Num(from_bytes_little(Slice(data, 0, 2)))],
                 [k |-> "humidity", v |-> Num(from_bytes_little(Slice(data, 3, 5)))],
                 [k |-> "battery", v |-> Num(data[6])],
                 [k |-> "raw_hex", v |-> Str(bytes_hex(data))] >>

\* mutant: the payload length is not checked against 6 but against 7
decode_govee_h5074_len7(manufacturer_data) ==
    IF GOVEE \notin DOMAIN manufacturer_data THEN None
    ELSE LET data == manufacturer_data[GOVEE] IN
         IF Len(data) < 7 THEN None
         ELSE << [k |-> "temperature", v |-> Num(from_bytes_little(Slice(data, 1, 3)))],
                 [k |-> "humidity", v |-> Num(from_bytes_little(Slice(data, 3, 5)))],
                 [k |-> "battery", v |-> Num(data[6])],
                 [k |-> "raw_hex", v |-> Str(bytes_hex(data))] >>

\* BLELogger._decode_govee_h5074
decode_govee_h5074(manufacturer_data) ==
    IF GOVEE \notin DOMAIN manufacturer_data THEN None
    ELSE LET data == manufacturer_data[GOVEE] IN
         IF Len(data) < 6 THEN None
         ELSE << [k |-> "temperature", v |-> Num(from_bytes_little(Slice(data, 1, 3)))],
                 [k |-> "humidity", v |-> Num(from_bytes_little(Slice(data, 3, 5)))],
                 [k |-> "battery", v |-> Num(data[6])],
                 [k |-> "raw_hex", v |-> Str(bytes_hex(data))] >>

\* BLELogger.decode_data: the dispatch reads device_config['decoder']['type']
decode_data(device_config, manufacturer_data) ==
    LET decoder_type == DictGetOr(device_config.decoder, "type", "None") IN
    IF decoder_type = "govee_h5074"
    THEN decode_govee_h5074(manufacturer_data)
    ELSE None

\* GoveeSensor.decode_sensor_data of H5074_logger.py
H5074_decode_sensor_data(manufacturer_data, t) ==
    IF GOVEE \notin DOMAIN manufacturer_data THEN None
    ELSE LET data == manufacturer_data[GOVEE] IN
         IF Len(data) < 6 THEN None
         ELSE LET temp == from_bytes_little(Slice(data, 1, 3))
                  humidity == from_bytes_little(Slice(data, 3, 5))
                  battery == data[6]
              IN << [k |-> "temperature", v |-> Num(temp)],
                    [k |-> "humidity", v |-> Num(humidity)],
                    [k |-> "battery", v |-> Num(battery)],
                    [k |-> "timestamp", v |-> Str(strftime_timestamp(t))],
                    [k |-> "raw_hex", v |-> Str(bytes_hex(data))] >>

\* GoveeSensor.decode_sensor_data of adscanner.py
adscanner_decode_sensor_data(manufacturer_data, t) ==
    IF GOVEE \notin DOMAIN manufacturer_data THEN None
    ELSE LET data == manufacturer_data[GOVEE] IN
         IF Len(data) < 6 THEN None
         ELSE LET temp == from_bytes_little(Slice(data, 1, 3))
                  humidity == from_bytes_little(Slice(data, 3, 5))
                  battery == data[6]
                  decoded_data ==
                      << [k |-> "temperature", v |-> Num(temp)],
                         [k |-> "humidity", v |-> Num(humidity)],
                         [k |-> "battery", v |-> Num(battery)],
                         [k |-> "timestamp", v |-> Str(strftime_timestamp(t))],
                         [k |-> "raw_hex", v |-> Str(bytes_hex(data))] >>
              IN decoded_data

(***************************************************************************)
(* FieldMapper.                                                            *)
(***************************************************************************)
\* the loop of map_data_to_config over device_config['fields'].items()
RECURSIVE map_fields(_, _, _)
map_fields(mapped_data, fields, raw_data) ==
    IF fields = << >> THEN mapped_data
    ELSE LET field_name == Head(fields).k
             field_config == Head(fields).v
             next ==
                 IF field_config.enabled
                 THEN LET source == field_config.source_field IN
                      IF DictHas(raw_data, source)
                      THEN DictSet(mapped_data, field_name, DictGet(raw_data, source))
                      ELSE mapped_data
                 ELSE mapped_data
         IN map_fields(next, Tail(fields), raw_data)

\* mutant: the enabled flag is not consulted
RECURSIVE map_fields_all(_, _, _)
map_fields_all(mapped_data, fields, raw_data) ==
    IF fields = << >> THEN mapped_data
    ELSE LET field_name == Head(fields).k
             source == Head(fields).v.source_field
             next ==
                 IF DictHas(raw_data, source)
                 THEN DictSet(mapped_data, field_name, DictGet(raw_data, source))
                 ELSE mapped_data
         IN map_fields_all(next, Tail(fields), raw_data)

map_data_to_config_ignoring_enabled(device_config, raw_data, t) ==
    map_fields_all(
        << [k |-> "key", v |-> Str(device_config.key)],
           [k |-> "timestamp", v |-> Str(strftime_timestamp(t))] >>,
        device_config.fields, raw_data)

\* BLELogger.map_data_to_config, called at time t
map_data_to_config(device_config, raw_data, t) ==
    map_fields(
        << [k |-> "key", v |-> Str(device_config.key)],
           [k |-> "timestamp", v |-> Str(strftime_timestamp(t))] >>,
        device_config.fields, raw_data)

(***************************************************************************)
(* DeviceConfig: the registry and its file.                                *)
(***************************************************************************)
\* json.dump of one field mapping and of one device: an object is the
\* sequence of its members in insertion order
json_dump_field(spec) ==
    << [k |-> "source_field", v |-> spec.source_field],
       [k |-> "enabled", v |-> IF spec.enabled THEN "true" ELSE "false"],
       [k |-> "description", v |-> spec.description] >>

json_dump_device(device) ==
    << [k |-> "key", v |-> device.key],
       [k |-> "description", v |-> device.description],
       [k |-> "mac_address", v |-> device.mac_address],
       [k |-> "device_type", v |-> device.device_type],
       [k |-> "scan_filter", v |-> device.scan_filter],
       [k |-> "decoder", v |-> device.decoder],
       [k |-> "fields", v |-> [i \in 1..Len(device.fields) |->
                                  [k |-> device.fields[i].k,
                                   v |-> json_dump_field(device.fields[i].v)]]] >>

\* json.dump(self.config, f, indent=4): the document {"devices": [...]}
json_dump(devices) ==
    << [k |-> "devices", v |-> [i \in 1..Len(devices) |-> json_dump_device(devices[i])]] >>

\* mutant: a field mapping is loaded as enabled whatever the file says
json_load_field_enabled(object) ==
    [source_field |-> DictGet(object, "source_field"),
     enabled |-> TRUE,
     description |-> DictGet(object, "description")]

json_load_field(object) ==
    [source_field |-> DictGet(object, "source_field"),
     enabled |-> (DictGet(object, "enabled") = "true"),
     description |-> DictGet(object, "description")]

json_load_device(object) ==
    [key |-> DictGet(object, "key"),
     description |-> DictGet(object, "description"),
     mac_address |-> DictGet(object, "mac_address"),
     device_type |-> DictGet(object, "device_type"),
     scan_filter |-> DictGet(object, "scan_filter"),
     decoder |-> DictGet(object, "decoder"),
     fields |-> LET members == DictGet(object, "fields") IN
                [i \in 1..Len(members) |->
                    [k |-> members[i].k, v |-> json_load_field(members[i].v)]]]

\* json.load(f)['devices']
json_load(text) ==
    LET array == DictGet(text, "devices") IN
    [i \in 1..Len(array) |-> json_load_device(array[i])]

\* json.load(f) raises json.JSONDecodeError: the document is empty
raises_JSONDecodeError(text) == text = << >>

\* DeviceConfig.load_config
load_config(st) == IF st.exists THEN json_load(st.text) ELSE << >>

\* DeviceConfig.save_config
save_config(devices) == [exists |-> TRUE, text |-> json_dump(devices)]

\* the file after save_config ran on the file st with outcome io:
\*   "ok"           open(config_file, 'w') and json.dump both succeed
\*   "open_error"   open() raises OSError: the file is as it was
\*   "write_error"  open() has truncated the file, then the write raises
\*                  OSError or the process is stopped: the document is cut
\*                  short (modelled by the empty document)
SaveOutcomes == {"ok", "open_error", "write_error"}
save_config_outcome(st, devices, io) ==
    CASE io = "ok" -> save_config(devices)
      [] io = "open_error" -> st
      [] io = "write_error" -> [exists |-> TRUE, text |-> << >>]

\* mutant: no key is ever found
get_device_by_key_never(devices, key) == None

\* DeviceConfig.get_device_by_key: << >> for None, <<device>> otherwise
get_device_by_key(devices, key) ==
    IF \E i \in 1..Len(devices) : devices[i].key = key
    THEN <<devices[CHOOSE i \in 1..Len(devices) :
                      /\ devices[i].key = key
                      /\ \A j \in 1..(i - 1) : devices[j].key # key]>>
    ELSE None

\* mutant: an address that matches no entry is served the first entry
get_device_by_mac_default_first(devices, mac) ==
    LET m == upper(mac) IN
    IF \E i \in 1..Len(devices) : upper(devices[i].mac_address) = m
    THEN <<devices[CHOOSE i \in 1..Len(devices) :
                      /\ upper(devices[i].mac_address) = m
                      /\ \A j \in 1..(i - 1) : upper(devices[j].mac_address) # m]>>
    ELSE IF devices # << >> THEN <<devices[1]>> ELSE None

\* DeviceConfig.get_device_by_mac: << >> for None, <<device>> otherwise
get_device_by_mac(devices, mac) ==
    LET m == upper(mac) IN
    IF \E i \in 1..Len(devices) : upper(devices[i].mac_address) = m
    THEN <<devices[CHOOSE i \in 1..Len(devices) :
                      /\ upper(devices[i].mac_address) = m
                      /\ \A j \in 1..(i - 1) : upper(devices[j].mac_address) # m]>>
    ELSE None

\* the entry DeviceConfig.add_device builds
new_device(key, description, mac, device_type, scan_filter) ==
    [key |-> key,
     description |-> description,
     mac_address |-> mac,
     device_type |-> device_type,
     scan_filter |-> scan_filter,
     decoder |-> << >>,
     fields |-> << >>]

\* mutant: the field mapping is set in every entry of the registry
with_field_all(devices, key, field_name, source_field, description, enabled) ==
    [i \in 1..Len(devices) |->
        [devices[i] EXCEPT !.fields =
            DictSet(@, field_name, [source_field |-> source_field,
                                    enabled |-> enabled,
                                    description |-> description])]]

\* the registry after device['fields'][field_name] = {...} on the entry of key
with_field(devices, key, field_name, source_field, description, enabled) ==
    LET i == CHOOSE i \in 1..Len(devices) :
                 /\ devices[i].key = key
                 /\ \A j \in 1..(i - 1) : devices[j].key # key
    IN [devices EXCEPT ![i].fields =
            DictSet(@, field_name, [source_field |-> source_field,
                                    enabled |-> enabled,
                                    description |-> description])]

(***************************************************************************)
(* BLELogger: filter, rate gate, sink.                                     *)
(***************************************************************************)
\* BLELogger.matches_filter
matches_filter(device_name, scan_filter) ==
    IF DictHas(scan_filter, "name_pattern")
    THEN LET pattern == DictGet(scan_filter, "name_pattern") IN
         IF Truthy(device_name) THEN re_match(pattern, device_name) ELSE FALSE
    ELSE FALSE

\* mutant: a refused call moves _last_log_time too
should_log_sliding(last, current_time, ivl) ==
    IF last = 0 \/ (current_time - last) >= ivl
    THEN [ok |-> TRUE, last |-> current_time]
    ELSE [ok |-> FALSE, last |-> current_time]

\* should_log of monitor_devices: the result and the new _last_log_time
should_log(last, current_time, ivl) ==
    IF last = 0 \/ (current_time - last) >= ivl
    THEN [ok |-> TRUE, last |-> current_time]
    ELSE [ok |-> FALSE, last |-> last]

\* should_log of monitor_continuous (H5074_logger.py)
H5074_should_log(last, current_time, ivl) ==
    IF (current_time - last) >= ivl
    THEN [ok |-> TRUE, last |-> current_time]
    ELSE [ok |-> FALSE, last |-> last]

\* csv.DictWriter(f, fieldnames): writeheader() and writerow(data)
csv_header(fieldnames) == [kind |-> "header", fieldnames |-> fieldnames, data |-> << >>]
csv_row(fieldnames, data) == [kind |-> "row", fieldnames |-> fieldnames, data |-> data]

\* mutant: the row is appended although the write failed
log_data_despite_error(f, data, io) ==
    LET fieldnames == DictKeys(data) IN
    [exists |-> TRUE,
     lines |-> f.lines
               \o (IF ~f.exists THEN <<csv_header(fieldnames)>> ELSE << >>)
               \o <<csv_row(fieldnames, data)>>]

\* BLELogger.log_data on the file f: io = "error" is open() raising, which
\* the except clause logs and swallows
log_data(f, data, io) ==
    IF io = "error" THEN f
    ELSE LET fieldnames == DictKeys(data) IN
         [exists |-> TRUE,
          lines |-> f.lines
                    \o (IF ~f.exists THEN <<csv_header(fieldnames)>> ELSE << >>)
                    \o <<csv_row(fieldnames, data)>>]

\* GoveeSensor.log_data of H5074_logger.py: the columns are fixed
H5074_log_data(f, data, io) ==
    IF io = "error" THEN f
    ELSE LET fieldnames == <<"timestamp", "temperature", "humidity", "battery", "raw_hex">> IN
         [exists |-> TRUE,
          lines |-> f.lines
                    \o (IF ~f.exists THEN <<csv_header(fieldnames)>> ELSE << >>)
                    \o <<csv_row(fieldnames, data)>>]

(***************************************************************************)
(* MonitorLoop: the detection callbacks.  Each returns what one call does: *)
(*   returned  the call left through an early return                       *)
(*   found     the address matched an entry; key its device key            *)
(*   asked     should_log() was called; passed its result                  *)
(*   last      the new _last_log_time;  file the new file                  *)
(*   rows      rows appended;  prints  reading summaries printed           *)
(*   io        the outcomes of the log_data calls made, in order           *)
(***************************************************************************)
\* "if advertisement_data.manufacturer_data: ..." of logger.py: decode,
\* map, log and print for the entry device_config
decode_map_log(device_config, ad, f, t, io) ==
    LET raw_data == IF DOMAIN ad.manufacturer_data # {}
                    THEN decode_data(device_config, ad.manufacturer_data)
                    ELSE None
        mapped_data == map_data_to_config(device_config, raw_data, t)
    IN IF Truthy(raw_data) /\ Truthy(mapped_data)
       THEN [file |-> log_data(f, mapped_data, io),
             rows |-> IF io = "ok" THEN 1 ELSE 0, prints |-> 1, io |-> <<io>>]
       ELSE [file |-> f, rows |-> 0, prints |-> 0, io |-> << >>]

\* mutant: the gate is asked before the address is looked up
callback_gated_gate_first(devices, ad, f, last, t, ivl, io) ==
    LET found == get_device_by_mac(devices, ad.address)
        gate == should_log(last, t, ivl)
    IN IF ~Truthy(found)
       THEN [returned |-> TRUE, found |-> FALSE, key |-> None, asked |-> TRUE,
             passed |-> FALSE, last |-> gate.last, file |-> f, rows |-> 0, prints |-> 0,
             io |-> << >>]
       ELSE IF ~gate.ok
            THEN [returned |-> TRUE, found |-> TRUE, key |-> found[1].key,
                  asked |-> TRUE, passed |-> FALSE, last |-> gate.last, file |-> f,
                  rows |-> 0, prints |-> 0, io |-> << >>]
            ELSE LET p == decode_map_log(found[1], ad, f, t, io) IN
                 [returned |-> FALSE, found |-> TRUE, key |-> found[1].key,
                  asked |-> TRUE, passed |-> TRUE, last |-> gate.last,
                  file |-> p.file, rows |-> p.rows, prints |-> p.prints, io |-> p.io]

\* the body shared by the first detection_callback of monitor_devices and
\* the first half of the second one
callback_gated(devices, ad, f, last, t, ivl, io) ==
    LET found == get_device_by_mac(devices, ad.address) IN
    IF ~Truthy(found)
    THEN [returned |-> TRUE, found |-> FALSE, key |-> None, asked |-> FALSE,
          passed |-> FALSE, last |-> last, file |-> f, rows |-> 0, prints |-> 0,
          io |-> << >>]
    ELSE LET device_config == found[1]
             gate == should_log(last, t, ivl)
         IN IF ~gate.ok
            THEN [returned |-> TRUE, found |-> TRUE, key |-> device_config.key,
                  asked |-> TRUE, passed |-> FALSE, last |-> gate.last, file |-> f,
                  rows |-> 0, prints |-> 0, io |-> << >>]
            ELSE LET p == decode_map_log(device_config, ad, f, t, io) IN
                 [returned |-> FALSE, found |-> TRUE, key |-> device_config.key,
                  asked |-> TRUE, passed |-> TRUE, last |-> gate.last,
                  file |-> p.file, rows |-> p.rows, prints |-> p.prints, io |-> p.io]

\* the second half of the second detection_callback: lookup, name filter,
\* decode, map, log and print once more
callback_filtered(devices, ad, f, t, io) ==
    LET found == get_device_by_mac(devices, ad.address) IN
    IF ~Truthy(found)
    THEN [file |-> f, rows |-> 0, prints |-> 1, io |-> << >>]
    ELSE IF ~matches_filter(ad.name, found[1].scan_filter)
         THEN [file |-> f, rows |-> 0, prints |-> 0, io |-> << >>]
         ELSE decode_map_log(found[1], ad, f, t, io)

\* the second detection_callback of monitor_devices, whole
callback_second(devices, ad, f, last, t, ivl, io1, io2) ==
    LET r == callback_gated(devices, ad, f, last, t, ivl, io1) IN
    IF r.returned THEN r
    ELSE LET q == callback_filtered(devices, ad, r.file, t, io2) IN
         [r EXCEPT !.file = q.file, !.rows = r.rows + q.rows,
                   !.prints = r.prints + q.prints, !.io = r.io \o q.io]

\* detection_callback of monitor_continuous (H5074_logger.py)
H5074_callback(mac, ad, f, last, t, ivl, io) ==
    IF upper(ad.address) # upper(mac)
    THEN [returned |-> TRUE, found |-> FALSE, key |-> None, asked |-> FALSE,
          passed |-> FALSE, last |-> last, file |-> f, rows |-> 0, prints |-> 0,
          io |-> << >>]
    ELSE IF DOMAIN ad.manufacturer_data = {}
         THEN [returned |-> TRUE, found |-> TRUE, key |-> upper(mac), asked |-> FALSE,
               passed |-> FALSE, last |-> last, file |-> f, rows |-> 0, prints |-> 0,
               io |-> << >>]
         ELSE LET gate == H5074_should_log(last, t, ivl) IN
              IF ~gate.ok
              THEN [returned |-> TRUE, found |-> TRUE, key |-> upper(mac), asked |-> TRUE,
                    passed |-> FALSE, last |-> gate.last, file |-> f, rows |-> 0,
                    prints |-> 0, io |-> << >>]
              ELSE LET data == H5074_decode_sensor_data(ad.manufacturer_data, t) IN
                   IF Truthy(data)
                   THEN [returned |-> FALSE, found |-> TRUE, key |-> upper(mac),
                         asked |-> TRUE, passed |-> TRUE, last |-> gate.last,
                         file |-> H5074_log_data(f, data, io),
                         rows |-> IF io = "ok" THEN 1 ELSE 0, prints |-> 1,
                         io |-> <<io>>]
                   ELSE [returned |-> FALSE, found |-> TRUE, key |-> upper(mac),
                         asked |-> TRUE, passed |-> TRUE, last |-> gate.last,
                         file |-> f, rows |-> 0, prints |-> 0, io |-> << >>]

\* GoveeSensor.log_data of adscanner.py: the header goes to an empty file
adscanner_log_data(f, data, io) ==
    IF io = "error" THEN f
    ELSE LET fieldnames == <<"timestamp", "temperature", "humidity", "battery", "raw_hex">> IN
         [exists |-> TRUE,
          lines |-> f.lines
                    \o (IF f.lines = << >> THEN <<csv_header(fieldnames)>> ELSE << >>)
                    \o <<csv_row(fieldnames, data)>>]

\* detection_callback of scan_advertisements (adscanner.py): no rate gate;
\* mac is self.mac_address, uppercased by __init__
adscanner_callback(mac, ad, f, last, t, io) ==
    IF upper(ad.address) # mac
    THEN [returned |-> TRUE, found |-> FALSE, key |-> None, asked |-> FALSE,
          passed |-> FALSE, last |-> last, file |-> f, rows |-> 0, prints |-> 0,
          io |-> << >>]
    ELSE LET data == IF DOMAIN ad.manufacturer_data # {}
                     THEN adscanner_decode_sensor_data(ad.manufacturer_data, t)
                     ELSE None
         IN IF Truthy(data)
            THEN [returned |-> FALSE, found |-> TRUE, key |-> mac, asked |-> FALSE,
                  passed |-> FALSE, last |-> last,
                  file |-> adscanner_log_data(f, data, io),
                  rows |-> IF io = "ok" THEN 1 ELSE 0, prints |-> 1, io |-> <<io>>]
            ELSE [returned |-> FALSE, found |-> TRUE, key |-> mac, asked |-> FALSE,
                  passed |-> FALSE, last |-> last, file |-> f, rows |-> 0,
                  prints |-> 0, io |-> << >>]

(***************************************************************************)
(* Inputs of the model.                                                    *)
(***************************************************************************)
GOVEE_H5074 == "govee_h5074"

\* the payload of the decoder's comment: 00 46 0c 88 0e 45
ExamplePayload == <<0, 70, 12, 136, 14, 69>>

\* manufacturer_data mappings an advertisement may carry
NoManufacturerData == << >>
OtherManufacturerData == (OTHER_COMPANY :> <<2, 21>>)
GoveeManufacturerData == (GOVEE :> ExamplePayload)
AdManufacturerData == {NoManufacturerData, OtherManufacturerData, GoveeManufacturerData}

\* addresses as the scanner reports them, and advertised names (<< >> is None)
AdAddresses == {<<"A", "1">>, <<"B", "2">>, <<"C", "3">>}
AdNames == {<< >>, <<"G", "1">>, <<"X", "1">>}
IOOutcomes == {"ok", "error"}

Advertisements ==
    [address : AdAddresses, name : AdNames, manufacturer_data : AdManufacturerData]

\* a configuration file written by hand before the run: its entries name
\* their decoder, which add_device never does
PreconfiguredDevices ==
    << [key |-> <<"A">>, description |-> <<"d">>, mac_address |-> <<"a", "1">>,
        device_type |-> GOVEE_H5074,
        scan_filter |-> << [k |-> "name_pattern", v |-> <<"G">>] >>,
        decoder |-> << [k |-> "type", v |-> GOVEE_H5074] >>,
        fields |-> << [k |-> "temp_c",
                       v |-> [source_field |-> "temperature", enabled |-> TRUE,
                              description |-> <<"d">>]],
                      [k |-> "hum",
                       v |-> [source_field |-> "humidity", enabled |-> FALSE,
                              description |-> <<"d">>]] >>],
       [key |-> <<"B">>, description |-> <<"d">>, mac_address |-> <<"B", "2">>,
        device_type |-> GOVEE_H5074,
        scan_filter |-> << >>,
        decoder |-> << [k |-> "type", v |-> GOVEE_H5074] >>,
        fields |-> << [k |-> "batt",
                       v |-> [source_field |-> "battery", enabled |-> TRUE,
                              description |-> <<"d">>]] >>] >>

NoStore == [exists |-> FALSE, text |-> << >>]
InitStores == {NoStore, save_config(PreconfiguredDevices)}

\* what the operator types in configure_device
ConfigureKeys == {<<"C">>}
ConfigureMacs == {<<"C", "3">>}
ConfigureTypes == {GOVEE_H5074}
ConfigurePatterns == {<<"G">>}
ConfigureFields ==
    {[field_name |-> "temp_c", source_field |-> "temperature", enabled |-> TRUE]}

Intervals == MinInterval..MaxInterval

NoEvent ==
    [kind |-> "none", address |-> << >>, name |-> << >>, manufacturer_data |-> << >>,
     found |-> FALSE, key |-> << >>, asked |-> FALSE, passed |-> FALSE,
     rows |-> 0, prints |-> 0, before |-> 0, after |-> 0, at |-> 0, io |-> << >>]

NoFile == [exists |-> FALSE, lines |-> << >>]

\* no call to the registry made yet in this process
NoCall == [op |-> "none"]
NoResult == [raised |-> "none"]

(***************************************************************************)
(* The state machine.                                                      *)
(***************************************************************************)
\* BLELogger.__init__ at the start of main() of logger.py
InitLogger ==
    /\ program = "logger"
    /\ store \in InitStores
    /\ config = load_config(store)
    /\ mac_address = None
    /\ pc = "main"
    /\ interval = 0
    /\ now = StartTime
    /\ last_log_time = 0
    /\ scanner = "none"
    /\ data_file = <<"b", "l", "e", "_">> \o strftime_date(now)
    /\ file = NoFile
    /\ console = 0
    /\ accepted = << >>
    /\ written = << >>
    /\ evt = NoEvent
    /\ arg = NoCall
    /\ ret = NoResult

\* GoveeSensor.__init__ and load_config at the start of main() of
\* H5074_logger.py, for a configured device
InitH5074 ==
    /\ program = "H5074_logger"
    /\ store = NoStore
    /\ config = << >>
    /\ mac_address \in {<<"a", "1">>}
    /\ pc = "main"
    /\ interval = 0
    /\ now = StartTime
    /\ last_log_time = 0
    /\ scanner = "none"
    /\ data_file = <<"g", "o", "v", "_">> \o strftime_date(now)
    /\ file = NoFile
    /\ console = 0
    /\ accepted = << >>
    /\ written = << >>
    /\ evt = NoEvent
    /\ arg = NoCall
    /\ ret = NoResult

\* GoveeSensor.__init__ at the start of main() of adscanner.py
InitAdscanner ==
    /\ program = "adscanner"
    /\ store = NoStore
    /\ config = << >>
    /\ mac_address \in {upper(<<"a", "1">>)}
    /\ pc = "main"
    /\ interval = 0
    /\ now = StartTime
    /\ last_log_time = 0
    /\ scanner = "none"
    /\ data_file = <<"g", "o", "v", "_">> \o strftime_date(now)
    /\ file = NoFile
    /\ console = 0
    /\ accepted = << >>
    /\ written = << >>
    /\ evt = NoEvent
    /\ arg = NoCall
    /\ ret = NoResult

Init == InitLogger \/ InitH5074 \/ InitAdscanner

\* DeviceConfig.add_device, as configure_device calls it
add_device(key, description, mac, device_type, scan_filter) ==
    /\ program = "logger"
    /\ pc = "main"
    /\ IF Truthy(get_device_by_key(config, key))
       THEN \* ValueError, caught by configure_device, which returns
            /\ pc' = "exited"
            /\ ret' = [raised |-> "ValueError"]
            /\ UNCHANGED <<config, store>>
       ELSE /\ config' = Append(config, new_device(key, description, mac,
                                                   device_type, scan_filter))
            /\ \E io \in SaveOutcomes :
                  \* an OSError of save_config is caught nowhere: it leaves main()
                  /\ store' = save_config_outcome(store, config', io)
                  /\ ret' = [raised |-> IF io = "ok" THEN "none" ELSE "OSError"]
                  /\ pc' = IF io = "ok" THEN "configure" ELSE "OSError"
    /\ arg' = [op |-> "add_device", key |-> key, mac |-> mac, field_name |-> ""]
    /\ UNCHANGED <<program, mac_address, interval, now, last_log_time, scanner,
                   data_file, file, console, accepted, written, evt>>

\* DeviceConfig.add_field, as the field loop of configure_device calls it
add_field(key, field_name, source_field, description, enabled) ==
    /\ program = "logger"
    /\ pc = "configure"
    /\ IF Truthy(get_device_by_key(config, key))
       THEN /\ config' = with_field(config, key, field_name, source_field,
                                    description, enabled)
            /\ \E io \in SaveOutcomes :
                  /\ store' = save_config_outcome(store, config', io)
                  /\ ret' = [raised |-> IF io = "ok" THEN "none" ELSE "OSError"]
                  /\ pc' = IF io = "ok" THEN pc ELSE "OSError"
       ELSE /\ ret' = NoResult
            /\ UNCHANGED <<config, store, pc>>
    /\ arg' = [op |-> "add_field", key |-> key, mac |-> << >>, field_name |-> field_name]
    /\ UNCHANGED <<program, mac_address, interval, now, last_log_time, scanner,
                   data_file, file, console, accepted, written, evt>>

\* the configure command has ended and main() is started again:
\* BLELogger.__init__, which no try statement of main() encloses
new_process ==
    /\ program = "logger"
    /\ pc \in {"configure", "exited", "OSError"}
    /\ IF store.exists /\ raises_JSONDecodeError(store.text)
       THEN \* json.load raises in DeviceConfig.__init__: no logger is built and
            \* the exception leaves main()
            /\ config' = << >>
            /\ pc' = "JSONDecodeError"
            /\ ret' = [raised |-> "JSONDecodeError"]
            /\ UNCHANGED <<last_log_time, data_file>>
       ELSE /\ config' = load_config(store)
            /\ last_log_time' = 0
            /\ data_file' = <<"b", "l", "e", "_">> \o strftime_date(now)
            /\ pc' = "main"
            /\ ret' = NoResult
    /\ arg' = NoCall
    /\ UNCHANGED <<program, store, mac_address, interval, now, scanner, file,
                   console, accepted, written, evt>>

\* monitor_devices up to the first "async with BleakScanner(...)"
monitor_devices(ivl) ==
    /\ program = "logger"
    /\ pc = "main"
    /\ last_log_time' = 0
    /\ interval' = ivl
    /\ scanner' = "cb1"
    /\ pc' = "monitor1"
    /\ UNCHANGED <<program, store, config, mac_address, now, data_file, file,
                   console, accepted, written, evt, arg, ret>>

\* monitor_continuous up to "async with BleakScanner(...)"
monitor_continuous(ivl) ==
    /\ program = "H5074_logger"
    /\ pc = "main"
    /\ last_log_time' = now
    /\ interval' = ivl
    /\ scanner' = "cb1"
    /\ pc' = "monitor1"
    /\ UNCHANGED <<program, store, config, mac_address, now, data_file, file,
                   console, accepted, written, evt, arg, ret>>

\* scan_advertisements up to "async with BleakScanner(...)"
scan_advertisements ==
    /\ program = "adscanner"
    /\ pc = "main"
    /\ scanner' = "cb1"
    /\ pc' = "monitor1"
    /\ UNCHANGED <<program, store, config, mac_address, interval, now, last_log_time,
                   data_file, file, console, accepted, written, evt, arg, ret>>

\* the effect of one callback call whose outcome is r
Handled(ad, r) ==
    /\ last_log_time' = r.last
    /\ file' = r.file
    /\ console' = console + r.prints
    /\ accepted' = IF r.passed THEN Append(accepted, [key |-> r.key, at |-> now])
                   ELSE accepted
    /\ written' = written \o [i \in 1..r.rows |->
                                 [key |-> r.key, address |-> ad.address, at |-> now]]
    /\ evt' = [kind |-> scanner, address |-> ad.address, name |-> ad.name,
               manufacturer_data |-> ad.manufacturer_data, found |-> r.found,
               key |-> r.key, asked |-> r.asked, passed |-> r.passed,
               rows |-> r.rows, prints |-> r.prints, before |-> last_log_time,
               after |-> r.last, at |-> now, io |-> r.io]
    /\ UNCHANGED <<program, store, config, mac_address, pc, interval, now, scanner,
                   data_file, arg, ret>>

\* the scanner calls the first detection_callback of monitor_devices; the
\* outcome of an open() is an input only of a call that reaches log_data
detection_callback(ad, io) ==
    /\ program = "logger"
    /\ scanner = "cb1"
    /\ \E r \in {callback_gated(config, ad, file, last_log_time, now, interval, io)} :
       /\ io = "ok" \/ Len(r.io) >= 1
       /\ Handled(ad, r)

\* the scanner calls the second detection_callback of monitor_devices
detection_callback_second(ad, io1, io2) ==
    /\ program = "logger"
    /\ scanner = "cb2"
    /\ \E r \in {callback_second(config, ad, file, last_log_time, now, interval,
                                   io1, io2)} :
       /\ io1 = "ok" \/ Len(r.io) >= 1
       /\ io2 = "ok" \/ Len(r.io) >= 2
       /\ Handled(ad, r)

\* the scanner calls the detection_callback of monitor_continuous
H5074_detection_callback(ad, io) ==
    /\ program = "H5074_logger"
    /\ scanner = "cb1"
    /\ \E r \in {H5074_callback(mac_address, ad, file, last_log_time, now,
                                  interval, io)} :
       /\ io = "ok" \/ Len(r.io) >= 1
       /\ Handled(ad, r)

\* the scanner calls the detection_callback of scan_advertisements
adscanner_detection_callback(ad, io) ==
    /\ program = "adscanner"
    /\ scanner = "cb1"
    /\ console < MaxScans
    /\ \E r \in {adscanner_callback(mac_address, ad, file, last_log_time, now, io)} :
       /\ io = "ok" \/ Len(r.io) >= 1
       /\ Handled(ad, r)

\* time passes while the monitor sleeps
Tick ==
    /\ pc \in {"monitor1", "monitor2"}
    /\ now < MaxTime
    /\ now' = now + 1
    /\ evt' = NoEvent
    /\ UNCHANGED <<program, store, config, mac_address, pc, interval, last_log_time,
                   scanner, data_file, file, console, accepted, written, arg, ret>>

\* Ctrl+C raised inside the try block: "except KeyboardInterrupt" catches
\* it, the "async with" releases the scanner and the function goes on
\* (scan_advertisements has no such try block)
KeyboardInterrupt_caught ==
    /\ program \in {"logger", "H5074_logger"}
    /\ pc \in {"monitor1", "monitor2"}
    /\ scanner' = "none"
    /\ pc' = IF program = "logger" /\ pc = "monitor1" THEN "between" ELSE "returned"
    /\ evt' = NoEvent
    /\ UNCHANGED <<program, store, config, mac_address, interval, now, last_log_time,
                   data_file, file, console, accepted, written, arg, ret>>

\* mutant: the exception leaves the function with the scanner still started
Cancelled_leaking ==
    /\ pc \in {"monitor1", "between", "monitor2"}
    /\ pc' = "cancelled"
    /\ evt' = NoEvent
    /\ UNCHANGED <<program, store, config, mac_address, interval, now, last_log_time,
                   scanner, data_file, file, console, accepted, written, arg, ret>>

\* Ctrl+C delivered to the event loop: the task is cancelled at its await,
\* the "async with" releases the scanner and the exception leaves the
\* function; so does any exception raised in the body of the "async with"
Cancelled ==
    /\ pc \in {"monitor1", "between", "monitor2"}
    /\ scanner' = "none"
    /\ pc' = "cancelled"
    /\ evt' = NoEvent
    /\ UNCHANGED <<program, store, config, mac_address, interval, now, last_log_time,
                   data_file, file, console, accepted, written, arg, ret>>

\* monitor_devices after the first "async with": the second one is entered
monitor_devices_again ==
    /\ program = "logger"
    /\ pc = "between"
    /\ scanner' = "cb2"
    /\ pc' = "monitor2"
    /\ evt' = NoEvent
    /\ UNCHANGED <<program, store, config, mac_address, interval, now, last_log_time,
                   data_file, file, console, accepted, written, arg, ret>>

Configure ==
    \/ \E key \in ConfigureKeys, mac \in ConfigureMacs, device_type \in ConfigureTypes,
          pattern \in ConfigurePatterns :
          add_device(key, <<"d">>, mac, device_type,
                     << [k |-> "name_pattern", v |-> pattern] >>)
    \/ \E f \in ConfigureFields :
          add_field(config[Len(config)].key, f.field_name, f.source_field, <<"d">>,
                    f.enabled)

Monitor ==
    \/ \E ivl \in Intervals : monitor_devices(ivl)
    \/ \E ivl \in Intervals : monitor_continuous(ivl)
    \/ \E ad \in Advertisements, io \in IOOutcomes : detection_callback(ad, io)
    \/ \E ad \in Advertisements, io1 \in IOOutcomes, io2 \in IOOutcomes :
          detection_callback_second(ad, io1, io2)
    \/ \E ad \in Advertisements, io \in IOOutcomes : H5074_detection_callback(ad, io)
    \/ scan_advertisements
    \/ \E ad \in Advertisements, io \in IOOutcomes : adscanner_detection_callback(ad, io)

Next ==
    \/ Configure
    \/ new_process
    \/ Monitor
    \/ Tick
    \/ KeyboardInterrupt_caught
    \/ Cancelled
    \/ monitor_devices_again

Spec == Init /\ [][Next]_vars

(***************************************************************************)
(* The pure functions on their own: the decoders (SpecDecode) and the      *)
(* field mapper (SpecMap) applied to inputs drawn from bounded sets.       *)
(***************************************************************************)
NotCalled == [called |-> FALSE]

\* the variables of the monitor, at rest
Idle ==
    /\ program = "none"
    /\ store = NoStore
    /\ config = << >>
    /\ mac_address = None
    /\ pc = "main"
    /\ interval = 0
    /\ now = StartTime
    /\ last_log_time = 0
    /\ scanner = "none"
    /\ data_file = << >>
    /\ file = NoFile
    /\ console = 0
    /\ accepted = << >>
    /\ written = << >>
    /\ evt = NoEvent

IdleUnchanged ==
    UNCHANGED <<program, store, config, mac_address, pc, interval, now, last_log_time,
                scanner, data_file, file, console, accepted, written, evt>>

ByteValues == {0, 12, 255}
Payloads ==
    UNION {[1..n -> ByteValues] : n \in 0..MaxPayloadLen}
    \cup {ExamplePayload, ExamplePayload \o <<2>>}

DecodeManufacturerData ==
    {NoManufacturerData, OtherManufacturerData}
    \cup {(GOVEE :> p) : p \in Payloads}
    \cup {(GOVEE :> ExamplePayload) @@ OtherManufacturerData}

\* device_config['decoder'] of an entry: none, an unsupported one, the Govee one
DecoderConfigs ==
    {<< >>, << [k |-> "type", v |-> "other"] >>, << [k |-> "type", v |-> GOVEE_H5074] >>}

InitDecode ==
    /\ Idle
    /\ arg \in [decoder : DecoderConfigs, manufacturer_data : DecodeManufacturerData]
    /\ ret = NotCalled

\* one call of each of the three decoders on the same input
CallDecode ==
    /\ ret = NotCalled
    /\ ret' = [called |-> TRUE,
               logger |-> decode_data([decoder |-> arg.decoder], arg.manufacturer_data),
               H5074_logger |-> H5074_decode_sensor_data(arg.manufacturer_data, now),
               adscanner |-> adscanner_decode_sensor_data(arg.manufacturer_data, now)]
    /\ UNCHANGED arg
    /\ IdleUnchanged

NextDecode == CallDecode

SpecDecode == InitDecode /\ [][NextDecode]_vars

\* field configurations: up to MaxFields mappings with distinct names
MapFieldNames == {"temp_c", "hum", "key", "timestamp"}
MapSources == {"temperature", "humidity", "pressure"}
MapFieldSpecs ==
    [source_field : MapSources, enabled : BOOLEAN, description : {<<"d">>}]
MapFields ==
    UNION {{f \in [1..n -> [k : MapFieldNames, v : MapFieldSpecs]] :
               \A i, j \in 1..n : i # j => f[i].k # f[j].k} : n \in 0..MaxFields}

\* intermediate records: two decoder outputs and a record short of some keys
MapRecords ==
    {decode_govee_h5074(GoveeManufacturerData),
     decode_govee_h5074(GOVEE :> <<0, 255, 255, 1, 0, 12, 9>>),
     << [k |-> "humidity", v |-> Num(5000)] >>}

InitMap ==
    /\ Idle
    /\ arg \in [key : {<<"A">>}, fields : MapFields, record : MapRecords,
                t : {StartTime, StartTime + SecondsPerDay}]
    /\ ret = NotCalled

\* one call of map_data_to_config
CallMap ==
    /\ ret = NotCalled
    /\ ret' = [called |-> TRUE,
               mapped_data |-> map_data_to_config(
                   [key |-> arg.key, fields |-> arg.fields], arg.record, arg.t)]
    /\ UNCHANGED arg
    /\ IdleUnchanged

NextMap == CallMap

SpecMap == InitMap /\ [][NextMap]_vars

(***************************************************************************)
(* Claims about the decoders (SpecDecode).                                 *)
(***************************************************************************)
GoveeDecoder == << [k |-> "type", v |-> GOVEE_H5074] >>

HasGoveePayload == GOVEE \in DOMAIN arg.manufacturer_data
ValidGoveePayload == HasGoveePayload /\ Len(arg.manufacturer_data[GOVEE]) >= 6

\* the value of a lowercase hexadecimal digit; 16 for any other character
HexValue(c) ==
    CASE c = "0" -> 0 [] c = "1" -> 1 [] c = "2" -> 2 [] c = "3" -> 3
      [] c = "4" -> 4 [] c = "5" -> 5 [] c = "6" -> 6 [] c = "7" -> 7
      [] c = "8" -> 8 [] c = "9" -> 9 [] c = "a" -> 10 [] c = "b" -> 11
      [] c = "c" -> 12 [] c = "d" -> 13 [] c = "e" -> 14 [] c = "f" -> 15
      [] OTHER -> 16

\* h spells the bytes of p, two lowercase hexadecimal digits each
IsLowerHexOf(h, p) ==
    /\ Len(h) = 2 * Len(p)
    /\ \A i \in 1..Len(p) :
          /\ HexValue(h[2 * i - 1]) < 16
          /\ HexValue(h[2 * i]) < 16
          /\ 16 * HexValue(h[2 * i - 1]) + HexValue(h[2 * i]) = p[i]

\* r carries the readings the wire format of payload p states
HasReadingsOf(r, p) ==
    /\ DictHas(r, "temperature") /\ DictGet(r, "temperature") = Num(p[2] + 256 * p[3])
    /\ DictHas(r, "humidity") /\ DictGet(r, "humidity") = Num(p[4] + 256 * p[5])
    /\ DictHas(r, "battery") /\ DictGet(r, "battery") = Num(p[6])
    /\ DictHas(r, "raw_hex") /\ DictGet(r, "raw_hex").tag = "str"
    /\ IsLowerHexOf(DictGet(r, "raw_hex").s, p)

\* r carries the readings of the example: 31.42 degrees, 37.20 percent, 69
HasExampleReadings(r) ==
    /\ DictGet(r, "temperature") = Num(3142)
    /\ DictGet(r, "humidity") = Num(3720)
    /\ DictGet(r, "battery") = Num(69)
    /\ DictGet(r, "raw_hex") =
           Str(<<"0", "0", "4", "6", "0", "c", "8", "8", "0", "e", "4", "5">>)

C8_DecodeNoDataExactly ==
    ret.called =>
        /\ (ret.logger = None) <=>
              (~HasGoveePayload \/ ~ValidGoveePayload \/ arg.decoder # GoveeDecoder)
        /\ (ret.H5074_logger = None) <=> (~HasGoveePayload \/ ~ValidGoveePayload)
        /\ (ret.adscanner = None) <=> (~HasGoveePayload \/ ~ValidGoveePayload)
        /\ \A r \in {ret.logger, ret.H5074_logger, ret.adscanner} :
              r # None => \A k \in {"temperature", "humidity", "battery", "raw_hex"} :
                             DictHas(r, k)

\* C8 witness: a 5-byte Govee payload has been given to the Govee decoder
\* and came back as None
C8_Witness ==
    /\ ret.called
    /\ HasGoveePayload
    /\ Len(arg.manufacturer_data[GOVEE]) = 5
    /\ arg.decoder = GoveeDecoder
    /\ ret.logger = None
    /\ ret.adscanner = None

(***************************************************************************)
(* Claims about the field mapper (SpecMap).                                *)
(***************************************************************************)
\* the mapping at position i of the entry resolves: enabled, source present
Resolves(i) ==
    /\ arg.fields[i].v.enabled
    /\ DictHas(arg.record, arg.fields[i].v.source_field)

ReservedKeys == {"key", "timestamp"}

\* C9 as stated: the output has no key named like a disabled field or like
\* a field whose source is absent from the record, whatever the field names.
C9_NoKeyForOmittedField ==
    ret.called =>
        \A i \in 1..Len(arg.fields) :
            ~Resolves(i) => ~DictHas(ret.mapped_data, arg.fields[i].k)

\* C9 amended: the output has no key named like a disabled field or like a
\* field whose source is absent, for every field name other than "key" and
\* "timestamp", which every output record carries.
C9_NoKeyForOmittedFieldButReserved ==
    ret.called =>
        \A i \in 1..Len(arg.fields) :
            (~Resolves(i) /\ arg.fields[i].k \notin ReservedKeys) =>
                ~DictHas(ret.mapped_data, arg.fields[i].k)

\* C9 witness: an entry with a disabled field whose source is present and an
\* enabled field whose source is absent has been mapped
C9_Witness ==
    /\ ret.called
    /\ \E i, j \in 1..Len(arg.fields) :
          /\ ~arg.fields[i].v.enabled
          /\ DictHas(arg.record, arg.fields[i].v.source_field)
          /\ arg.fields[i].k \notin ReservedKeys
          /\ arg.fields[j].v.enabled
          /\ ~DictHas(arg.record, arg.fields[j].v.source_field)
          /\ arg.fields[j].k \notin ReservedKeys

\* C10: the output record has key = entry.key, timestamp = the formatted
\* current time, one entry field_name -> record[source_field] for each
\* enabled field whose source is in the record, and no other key.
C10_MapIsExactProjection ==
    ret.called =>
        LET out == ret.mapped_data
            resolved == {i \in 1..Len(arg.fields) : Resolves(i)}
        IN /\ DictHas(out, "key") /\ DictGet(out, "key") = Str(arg.key)
           /\ DictHas(out, "timestamp")
           /\ DictGet(out, "timestamp") = Str(strftime_timestamp(arg.t))
           /\ \A i \in resolved :
                 /\ DictHas(out, arg.fields[i].k)
                 /\ DictGet(out, arg.fields[i].k) =
                       DictGet(arg.record, arg.fields[i].v.source_field)
           /\ {out[n].k : n \in 1..Len(out)} =
                 ReservedKeys \cup {arg.fields[i].k : i \in resolved}
           /\ \A m, n \in 1..Len(out) : m # n => out[m].k # out[n].k

(***************************************************************************)
(* Claims about the monitoring session (Spec).                             *)
(***************************************************************************)
\* the last step was a detection callback
Callback == evt.kind # "none"

\* the address matches no entry of the registry (logger.py), or is not the
\* configured device (H5074_logger.py)
Unregistered(address) ==
    IF program = "logger"
    THEN \A i \in 1..Len(config) : upper(config[i].mac_address) # upper(address)
    ELSE upper(mac_address) # upper(address)

\* the entry of the registry the event's device key names
EntryOf(key) == config[CHOOSE i \in 1..Len(config) : config[i].key = key]

\* the event carried a Govee payload of at least 6 bytes
CarriesGoveeReading(e) ==
    /\ GOVEE \in DOMAIN e.manufacturer_data
    /\ Len(e.manufacturer_data[GOVEE]) >= 6

\* the n-th row is the first one written for its key
FirstRowOfKey(n) == \A m \in 1..(n - 1) : written[m].key # written[n].key

\* C1: within one monitor call the times at which the gate accepts for one
\* device key are pairwise at least interval apart, and so are the times at
\* which rows for that key are written (the very first row set aside).
C1_AcceptedAndWrittenSpaced ==
    /\ \A i, j \in 1..Len(accepted) :
          (i < j /\ accepted[i].key = accepted[j].key) =>
              accepted[j].at - accepted[i].at >= interval
    /\ \A i, j \in 1..Len(written) :
          (i < j /\ written[i].key = written[j].key /\ ~FirstRowOfKey(i)) =>
              written[j].at - written[i].at >= interval

\* C2: the first should_log decision for a device key returns true and
\* records that time: whenever the gate has been asked about a key, the key
\* has an accepted time, and an accepting call leaves _last_log_time = now.
C2_FirstDecisionAccepts ==
    (Callback /\ evt.asked) =>
        /\ \E i \in 1..Len(accepted) : accepted[i].key = evt.key
        /\ evt.passed => (evt.after = evt.at /\ last_log_time = evt.at)

\* C3: an advertisement from an address that is not in the registry causes
\* no row and no console output, whatever it carries, however many arrive:
\* no callback for such an address writes or prints, and no row of the
\* file came from such an address.
C3_UnregisteredIsSilent ==
    /\ (Callback /\ Unregistered(evt.address)) =>
          /\ evt.rows = 0
          /\ evt.prints = 0
          /\ ~evt.asked
    /\ pc \in {"monitor1", "between", "monitor2", "returned", "cancelled"} =>
          \A n \in 1..Len(written) : ~Unregistered(written[n].address)

\* C3 witness: while the registry holds entries that name their decoder,
\* the second detection_callback has handled a decodable advertisement from
\* an address that is in no entry
C3_Witness ==
    /\ Callback
    /\ evt.kind = "cb2"
    /\ program = "logger"
    /\ Len(config) >= 2
    /\ Unregistered(evt.address)
    /\ CarriesGoveeReading(evt)
    /\ Len(written) >= 1

\* C4: for an entry created through add_device with device_type
\* govee_h5074, an advertisement from its address that carries a Govee
\* payload of at least 6 bytes and passes the gate puts exactly one row in
\* the file (no open() failing).
C4_AddedGoveeDeviceIsLogged ==
    (/\ Callback
     /\ program = "logger"
     /\ evt.found
     /\ evt.key \in ConfigureKeys
     /\ EntryOf(evt.key).device_type = GOVEE_H5074
     /\ CarriesGoveeReading(evt)
     /\ evt.passed
     /\ \A n \in 1..Len(evt.io) : evt.io[n] = "ok")
    => evt.rows = 1

\* C5: an advertisement whose name does not match the name_pattern its
\* entry declares causes no row and no console output.
C5_NameMismatchIsIgnored ==
    (/\ Callback
     /\ program = "logger"
     /\ evt.found
     /\ DictHas(EntryOf(evt.key).scan_filter, "name_pattern")
     /\ ~re_match(DictGet(EntryOf(evt.key).scan_filter, "name_pattern"), evt.name))
    => (evt.rows = 0 /\ evt.prints = 0)

\* C6: an advertisement of a registered device without manufacturer data is
\* dropped before the gate is asked: no row, no console output, and
\* _last_log_time stays as it was.
C6_NoVendorDataLeavesGate ==
    (/\ Callback
     /\ evt.found
     /\ DOMAIN evt.manufacturer_data = {})
    => (/\ ~evt.asked
        /\ evt.rows = 0
        /\ evt.prints = 0
        /\ evt.after = evt.before
        /\ last_log_time = evt.before)


(***************************************************************************)
(* The registry on its own (SpecRegistry): DeviceConfig driven from an     *)
(* empty registry by add_device and add_field calls with any of a few      *)
(* keys, addresses and field mappings, by lookups and by restarts.         *)
(***************************************************************************)
RegistryKeys == {<<"A">>, <<"B">>}
RegistryMacs == {<<"a", "1">>, <<"A", "1">>}
RegistryQueries == {<<"a", "1">>, <<"A", "1">>, <<"b", "2">>}
RegistryFields ==
    [field_name : {"temp_c", "hum"}, source_field : {"temperature"}, enabled : BOOLEAN]

InitRegistry == InitLogger /\ store = NoStore

\* a call of get_device_by_mac, as the detection callbacks make it
find_device(mac) ==
    /\ program = "logger"
    /\ pc \in {"main", "configure"}
    /\ arg' = [op |-> "get_device_by_mac", key |-> << >>, mac |-> mac, field_name |-> ""]
    /\ ret' = [raised |-> "none", device |-> get_device_by_mac(config, mac)]
    /\ UNCHANGED <<program, store, config, mac_address, pc, interval, now,
                   last_log_time, scanner, data_file, file, console, accepted,
                   written, evt>>

NextRegistry ==
    \/ \E key \in RegistryKeys, mac \in RegistryMacs :
          add_device(key, <<"d">>, mac, GOVEE_H5074, << >>)
    \/ \E key \in RegistryKeys, f \in RegistryFields :
          add_field(key, f.field_name, f.source_field, <<"d">>, f.enabled)
    \/ \E mac \in RegistryQueries : find_device(mac)
    \/ new_process

SpecRegistry == InitRegistry /\ [][NextRegistry]_vars


(***************************************************************************)
(* Claims about the registry (SpecRegistry).                               *)
(***************************************************************************)
\* the registry holds an entry of this key
HasKey(devices, key) == \E i \in 1..Len(devices) : devices[i].key = key

KeysUnique(devices) ==
    \A i, j \in 1..Len(devices) : i # j => devices[i].key # devices[j].key

\* C11: add_device with a key the registry already holds raises the
\* duplicate-key error (ValueError) and leaves the registry in memory and
\* the configuration file as they were; from the empty registry on, every
\* step leaves the device keys of the registry pairwise distinct.
C11_DuplicateKeyRejected ==
    [][/\ \A key \in RegistryKeys, mac \in RegistryMacs :
             (/\ HasKey(config, key)
              /\ add_device(key, <<"d">>, mac, GOVEE_H5074, << >>))
             => (/\ config' = config
                 /\ store' = store
                 /\ ret'.raised = "ValueError")
       /\ KeysUnique(config')]_vars

\* C11 witness: add_device was refused for a key of a registry of two
C11_Witness ==
    /\ arg.op = "add_device"
    /\ ret.raised = "ValueError"
    /\ pc = "exited"
    /\ Len(config) = 2
    /\ HasKey(config, arg.key)
    /\ store = save_config(config)


\* the process is running: no call has left main() through an exception
Running == pc \in {"main", "configure", "exited"}

\* C12: add_device and add_field persist at once: while every save has
\* succeeded, the configuration file exists as soon as the registry holds
\* an entry, loading it gives the registry in memory (same entries, same
\* order, same field mappings), and saving what was loaded gives the file.
C12_StoreEqualsRegistry ==
    Running =>
        /\ config # << >> => store.exists
        /\ store.exists => ~raises_JSONDecodeError(store.text)
        /\ load_config(store) = config
        /\ store.exists => save_config(load_config(store)) = store

\* C12 witness: a registry of two entries, one of them with an enabled and
\* a disabled field mapping, just saved by add_field
C12_Witness ==
    /\ pc = "configure"
    /\ arg.op = "add_field"
    /\ ret.raised = "none"
    /\ Len(config) = 2
    /\ \E i \in 1..2 :
          /\ Len(config[i].fields) = 2
          /\ config[i].fields[1].v.enabled
          /\ ~config[i].fields[2].v.enabled
    /\ load_config(store) = config


\* C13: add_field with a key that names no entry raises nothing and leaves
\* the registry in memory and the configuration file as they were; with a
\* key that names an entry it sets that field mapping in that entry's
\* fields and changes nothing else of the registry.
C13_AddFieldFrame ==
    [][\A key \in RegistryKeys, f \in RegistryFields :
          add_field(key, f.field_name, f.source_field, <<"d">>, f.enabled) =>
              IF ~HasKey(config, key)
              THEN /\ config' = config
                   /\ store' = store
                   /\ pc' = pc
                   /\ ret'.raised = "none"
              ELSE /\ Len(config') = Len(config)
                   /\ \A i \in 1..Len(config) :
                         IF config[i].key # key
                         THEN config'[i] = config[i]
                         ELSE /\ [config'[i] EXCEPT !.fields = config[i].fields] = config[i]
                              /\ DictGet(config'[i].fields, f.field_name) =
                                    [source_field |-> f.source_field,
                                     enabled |-> f.enabled,
                                     description |-> <<"d">>]
                              /\ \A n \in 1..Len(config[i].fields) :
                                    config[i].fields[n].k # f.field_name =>
                                        /\ DictHas(config'[i].fields, config[i].fields[n].k)
                                        /\ DictGet(config'[i].fields, config[i].fields[n].k)
                                              = config[i].fields[n].v]_vars

\* C13 witness: add_field was called with a key that is not in a registry
\* that holds another entry, and returned
C13_Witness ==
    /\ arg.op = "add_field"
    /\ ret.raised = "none"
    /\ pc = "configure"
    /\ config # << >>
    /\ ~HasKey(config, arg.key)
    /\ store = save_config(config)


(***************************************************************************)
(* Claims about the logger as a whole (Spec), continued.                   *)
(***************************************************************************)
\* C14: a logger started without a configuration file holds the empty
\* registry, and a configuration file that cannot be parsed is reported to
\* the caller and ends the command: no JSONDecodeError leaves main()
\* unhandled.
C14_LoadFailureIsSurfaced ==
    /\ (program = "logger" /\ pc = "main" /\ ~store.exists) => config = << >>
    /\ pc # "JSONDecodeError"


\* the data rows of the CSV file
DataRows == {n \in 1..Len(file.lines) : file.lines[n].kind = "row"}

\* the event's advertisement decodes to a reading for the entry it matched
Decodable(e) ==
    /\ e.found
    /\ CarriesGoveeReading(e)
    /\ program = "logger" =>
          DictGetOr(EntryOf(e.key).decoder, "type", "None") = GOVEE_H5074

\* C15: a log_data call whose write fails appends nothing and does not end
\* the session: the rows of the file are the rows of the calls that
\* succeeded, a callback with a failed write leaves the subscription open,
\* and whatever failed before, an advertisement that passes the gate and
\* decodes is written when its write succeeds.
C15_SinkFailureDropsEvent ==
    /\ Cardinality(DataRows) = Len(written)
    /\ Callback =>
          /\ evt.rows = Cardinality({n \in 1..Len(evt.io) : evt.io[n] = "ok"})
          /\ pc \in {"monitor1", "monitor2"}
          /\ scanner = evt.kind
          /\ (evt.passed /\ Decodable(evt) /\ \A n \in 1..Len(evt.io) : evt.io[n] = "ok")
                => evt.rows >= 1

\* C15 witness: a reading has been written although an earlier write of
\* this session failed (its summary was printed, its row is missing)
C15_Witness ==
    /\ Callback
    /\ evt.passed
    /\ evt.rows >= 1
    /\ \A n \in 1..Len(evt.io) : evt.io[n] = "ok"
    /\ console > Cardinality(DataRows)
    /\ Len(accepted) >= 2


\* the operator's interrupt has been handled in this monitor call
Interrupted == pc \in {"between", "monitor2", "returned", "cancelled"}

\* C16: once the interrupt has been handled the subscription is released
\* and stays released: no subscription is open and no advertisement is
\* handled any more.
C16_InterruptEndsSession ==
    Interrupted => (scanner = "none" /\ ~Callback)


\* the column set of a sequence of names
Columns(names) == {names[i] : i \in 1..Len(names)}

\* C17: the CSV file starts with its header row, has no other header row,
\* and every row has the column set of the header, which is the set of keys
\* of the first record written to the file.
C17_HeaderOnceColumnsFixed ==
    /\ ~file.exists => file.lines = << >>
    /\ file.lines # << >> =>
          /\ file.lines[1].kind = "header"
          /\ \A n \in 2..Len(file.lines) :
                /\ file.lines[n].kind = "row"
                /\ Columns(file.lines[n].fieldnames) = Columns(file.lines[1].fieldnames)
                /\ Columns(DictKeys(file.lines[n].data)) = Columns(file.lines[1].fieldnames)


(***************************************************************************)
(* Claims about the registry (SpecRegistry), continued.                    *)
(***************************************************************************)
\* two characters that differ at most in letter case
SameLetter(c, d) ==
    \/ c = d
    \/ {c, d} \in {{"a", "A"}, {"b", "B"}, {"c", "C"}, {"d", "D"}, {"e", "E"}, {"f", "F"}}

\* two addresses that differ at most in letter case
SameMac(a, b) ==
    /\ Len(a) = Len(b)
    /\ \A i \in 1..Len(a) : SameLetter(a[i], b[i])

\* the first entry in insertion order whose address is q up to letter case
FirstOfMac(devices, q) ==
    LET matches == {i \in 1..Len(devices) : SameMac(devices[i].mac_address, q)} IN
    IF matches = {} THEN None
    ELSE <<devices[CHOOSE i \in matches : \A j \in matches : i <= j]>>

\* C18: get_device_by_mac compares addresses without regard to letter case:
\* for every registry and every query it returns the first entry in
\* insertion order whose stored address equals the query up to case, and
\* None when there is none; so did the last lookup made.
C18_LookupIgnoresCase ==
    /\ \A q \in RegistryQueries \cup AdAddresses :
          get_device_by_mac(config, q) = FirstOfMac(config, q)
    /\ arg.op = "get_device_by_mac" => ret.device = FirstOfMac(config, arg.mac)

\* C18 witness: an upper-case query was answered with the first of two
\* matching entries, whose stored address is in lower case
C18_Witness ==
    /\ arg.op = "get_device_by_mac"
    /\ arg.mac = <<"A", "1">>
    /\ Len(config) = 2
    /\ config[1].mac_address = <<"a", "1">>
    /\ config[2].mac_address = <<"A", "1">>
    /\ ret.device = <<config[1]>>


(***************************************************************************)
(* Claims about the rate gate (Spec).                                      *)
(***************************************************************************)
\* C19: once _last_log_time holds a time, should_log returns true exactly
\* when now - _last_log_time >= interval; a true result sets
\* _last_log_time to now and a false result leaves it as it was.
C19_GateWindow ==
    (Callback /\ evt.asked /\ evt.before # 0) =>
        /\ evt.passed <=> (evt.at - evt.before >= interval)
        /\ evt.after = (IF evt.passed THEN evt.at ELSE evt.before)
        /\ last_log_time = evt.after

\* C19 witness: an advertisement inside the window of an accepted one was
\* refused by the gate of monitor_devices and left the anchor where it was
C19_Witness ==
    /\ Callback
    /\ program = "logger"
    /\ evt.asked
    /\ ~evt.passed
    /\ evt.before # 0
    /\ evt.at > evt.before
    /\ evt.after = evt.before
    /\ Len(accepted) >= 1


(***************************************************************************)
(* Claims about the configuration file (SpecRegistry).                     *)
(***************************************************************************)
\* C20: a save is atomic: whatever its outcome, after the step the
\* configuration file is the one before the step or the complete document
\* of the registry now in memory.
C20_SaveIsAtomic ==
    [][store' = store \/ store' = save_config(config')]_vars


(***************************************************************************)
(* Claims about the subscription, the daily file and the gate (Spec).      *)
(***************************************************************************)
\* C21: a subscription is open only while its "async with" block runs:
\* once monitor_devices, monitor_continuous or scan_advertisements has left
\* a block, by returning or by an exception, no subscription is open.
C21_SubscriptionReleased ==
    /\ pc \in {"between", "returned", "cancelled"} => scanner = "none"
    /\ scanner # "none" => pc \in {"monitor1", "monitor2"}

\* C21 witness: scan_advertisements was left by an exception after its
\* subscription had delivered a reading that was written
C21_Witness ==
    /\ program = "adscanner"
    /\ pc = "cancelled"
    /\ scanner = "none"
    /\ Len(written) >= 1


\* the calendar day in the name of the file, and in the timestamp of a row
FileDay == SubSeq(data_file, Len(data_file) - 1, Len(data_file))
RowDay(line) == SubSeq(DictGet(line.data, "timestamp").s, 2, 3)

\* C22: every row of the file carries a timestamp of the calendar day the
\* file is named after.
C22_RowsInFileOfTheirDay ==
    \A n \in DataRows : RowDay(file.lines[n]) = FileDay


\* C23: handling an advertisement of an address that is in no entry (or is
\* not the configured device) does not ask the gate and leaves
\* _last_log_time as it was.
C23_UnregisteredLeavesGate ==
    (Callback /\ Unregistered(evt.address)) =>
        /\ ~evt.found
        /\ ~evt.asked
        /\ evt.after = evt.before
        /\ last_log_time = evt.before

\* C23 witness: monitor_devices handled a decodable advertisement of an
\* unregistered address while the gate, used before, was open again, and
\* the gate is still open
C23_Witness ==
    /\ Callback
    /\ program = "logger"
    /\ Len(config) >= 2
    /\ Unregistered(evt.address)
    /\ CarriesGoveeReading(evt)
    /\ evt.before # 0
    /\ evt.at - evt.before >= interval
    /\ last_log_time = evt.before


(***************************************************************************)
(* A monitoring session that never ends (SpecLive): monitor_devices on the *)
(* registry of the configuration file, the clock running on for ever.      *)
(* Only differences of times matter to should_log, so once the clock has   *)
(* reached MaxTime a tick moves _last_log_time back instead of the clock   *)
(* forward, down to now - interval, from where the gate stays open.  The   *)
(* file and the history keep the first row of each device key.             *)
(***************************************************************************)
InitLive == InitLogger /\ store = save_config(PreconfiguredDevices)

\* what the two registered devices send: readings, and advertisements
\* without manufacturer data
LiveAdvertisements ==
    [address : {<<"A", "1">>, <<"B", "2">>}, name : {<< >>},
     manufacturer_data : {NoManufacturerData, GoveeManufacturerData}]

\* one second passes in the "while True: await asyncio.sleep(1)" loop
LiveTick ==
    /\ program = "logger"
    /\ pc = "monitor1"
    /\ IF now < MaxTime
       THEN /\ now' = now + 1
            /\ UNCHANGED last_log_time
       ELSE /\ now' = now
            /\ last_log_time' =
                  IF last_log_time = 0 THEN 0
                  ELSE IF last_log_time - 1 >= now - interval THEN last_log_time - 1
                  ELSE now - interval
    /\ evt' = NoEvent
    /\ UNCHANGED <<program, store, config, mac_address, pc, interval, scanner,
                   data_file, file, console, accepted, written, arg, ret>>

\* the scanner calls the first detection_callback of monitor_devices; every
\* write succeeds
live_detection_callback(ad) ==
    /\ program = "logger"
    /\ scanner = "cb1"
    /\ \E r \in {callback_gated(config, ad, file, last_log_time, now, interval, "ok")} :
       /\ last_log_time' = r.last
       /\ IF r.rows >= 1 /\ \A n \in 1..Len(written) : written[n].key # r.key
          THEN /\ file' = r.file
               /\ written' = Append(written,
                                    [key |-> r.key, address |-> ad.address, at |-> now])
          ELSE UNCHANGED <<file, written>>
       /\ evt' = [kind |-> scanner, address |-> ad.address, name |-> ad.name,
                  manufacturer_data |-> ad.manufacturer_data, found |-> r.found,
                  key |-> r.key, asked |-> r.asked, passed |-> r.passed,
                  rows |-> r.rows, prints |-> r.prints, before |-> last_log_time,
                  after |-> r.last, at |-> now, io |-> r.io]
    /\ UNCHANGED <<program, store, config, mac_address, pc, interval, now, scanner,
                   data_file, console, accepted, arg, ret>>

\* a decodable advertisement of the device at this address is delivered
Delivery(address) ==
    \E ad \in LiveAdvertisements :
        /\ ad.address = address
        /\ ad.manufacturer_data = GoveeManufacturerData
        /\ live_detection_callback(ad)

NextLive ==
    \/ \E ivl \in Intervals : monitor_devices(ivl)
    \/ \E ad \in LiveAdvertisements : live_detection_callback(ad)
    \/ LiveTick

\* the session is started, time advances, and each registered device keeps
\* sending decodable advertisements, which the scanner delivers
LiveFairness ==
    /\ WF_vars(\E ivl \in Intervals : monitor_devices(ivl))
    /\ WF_vars(LiveTick)
    /\ WF_vars(Delivery(<<"A", "1">>))
    /\ WF_vars(Delivery(<<"B", "2">>))

SpecLive == InitLive /\ [][NextLive]_vars /\ LiveFairness

\* a row of this device key has been written
Served(key) == \E n \in 1..Len(written) : written[n].key = key

\* C24: each registered device that keeps sending decodable advertisements
\* eventually has a row in the file, whatever the other devices send.
C24_NoStarvation == <>Served(<<"A">>) /\ <>Served(<<"B">>)

====
